---- MODULE Spec2Model ----
(***************************************************************************)
(* State-machine model of aggrep/models.py: the CRUD mixin over the        *)
(* SQLAlchemy session, the User helpers (password, identity lookup, signed *)
(* tokens, exclusions) and the post tables with their foreign keys.        *)
(*                                                                         *)
(* The session is modelled at two levels: `store` is what is committed,    *)
(* `mem` is the session's view (the in-memory records, with the changes    *)
(* not yet committed).  db.session.commit() writes the whole session.      *)
(*                                                                         *)
(* The relational engine is taken to enforce the constraints the schema    *)
(* declares (unique, foreign key, ON DELETE CASCADE).  The library calls   *)
(* (werkzeug's password hash, SQLAlchemy's unit of work) are modelled by   *)
(* their documented behaviour; encode_token and decode_token of            *)
(* aggrep.utils by what the specification says of them.                    *)
(*                                                                         *)
(* One specification per group of operations, over the same variables:     *)
(*   SpecCrud   create, update, save, delete, get_user_from_identity       *)
(*   SpecAuth   set_password, check_password                               *)
(*   SpecToken  the reset and email confirmation tokens, and time          *)
(*   SpecPosts  posts and the tables that refer to them                    *)
(*   SpecExcl   the excluded categories and sources of users               *)
(* Every action records the call in `last`, so a predicate on `last` is a  *)
(* predicate on the state right after that call.                           *)
(***************************************************************************)
EXTENDS Integers, Sequences, FiniteSets, TLC

VARIABLES
    mem,        \* user.id -> row: the session's view of the user table
    store,      \* user.id -> row: the committed user table
    nextId,     \* the user table's autoincrement counter
    last,       \* the last call: its name, arguments, result
    plain,      \* user.id -> the plaintexts given to set_password
    clock,      \* the time, in seconds
    held,       \* the token the client holds: token, user, time and purpose
    posts,      \* the ids of the rows of the posts table
    postNext,   \* the posts table's autoincrement counter
    rows,       \* table -> id -> row: the tables that refer to posts
    rowNext,    \* table -> that table's autoincrement counter
    categories, \* the ids of the rows of the categories table
    sources,    \* the ids of the rows of the sources table
    excluded    \* user.id -> the user's excluded categories and sources

vars == <<mem, store, nextId, last, plain, clock, held,
          posts, postNext, rows, rowNext, categories, sources, excluded>>
userVars == <<mem, store, nextId>>
authVars == <<plain>>
tokenVars == <<clock, held>>
postVars == <<posts, postNext, rows, rowNext>>
exclVars == <<categories, sources, excluded>>

\* ------------------------------------------------------------------ bounds
MaxCrudUsers == 2   \* users ever inserted, under SpecCrud
MaxAuthUsers == 2   \* users ever inserted, under SpecAuth
MaxTokenUsers == 2  \* users ever inserted, under SpecToken
MaxExclUsers == 2   \* users ever inserted, under SpecExcl
MaxCategories == 1  \* categories ever inserted
MaxSources == 1     \* sources ever inserted
MaxPosts == 2       \* posts ever inserted
MaxChildRows == 2   \* rows ever inserted in the tables that refer to posts

\* --------------------------------------------------------------- constants
None == "None"      \* Python None / SQL NULL in a column
NoId == 0           \* None where a record (its primary key) is expected

Emails == {"a@x", "b@x"}

UserColumns == {"email", "password", "active", "confirmed", "last_seen"}

NoHash == << >>     \* None in the password column (a hash is a tuple)

\* Column(..., default=...) of User: applied by the INSERT to a column the
\* constructor was given no value for.
UserDefault(c) ==
    CASE c = "active" -> "True"
      [] c = "confirmed" -> "False"
      [] c = "password" -> NoHash
      [] OTHER -> None

NoKwargs == [c \in {} |-> None]

\* The keyword arguments the model passes to create.
CreateKwargs ==
    { NoKwargs,
      [email |-> "a@x"],
      [email |-> "b@x", confirmed |-> "True"] }

\* The keyword arguments the model passes to update.
UpdateKwargs ==
    { [email |-> "a@x"],
      [confirmed |-> "False"],
      [email |-> "b@x", confirmed |-> "True"] }

\* ------------------------------------------------------------ the session
\* Mutant of UserConstraints: the unique constraint on email is missing.
UserConstraints_NoUnique(m) == TRUE

\* unique=True on User.email: the engine refuses two rows with the same
\* non-NULL email (NULLs are distinct under a unique constraint).
UserConstraints(m) ==
    \A i, j \in DOMAIN m :
        (i # j /\ m[i].email # None) => m[i].email # m[j].email

\* cls(**kwargs) as the row the INSERT writes.
Construct(kwargs) ==
    [c \in UserColumns |->
        IF c \in DOMAIN kwargs THEN kwargs[c] ELSE UserDefault(c)]

\* Mutant of SetAttrs: the record is rebuilt from the keyword arguments, so
\* the attributes not named fall back to their defaults.
SetAttrs_Rebuild(row, kwargs) ==
    [c \in UserColumns |->
        IF c \in DOMAIN kwargs THEN kwargs[c] ELSE UserDefault(c)]

\* for attr, value in kwargs.items(): setattr(self, attr, value)
SetAttrs(row, kwargs) ==
    [c \in DOMAIN row |-> IF c \in DOMAIN kwargs THEN kwargs[c] ELSE row[c]]

\* The table m with the row of that id added or replaced, and removed.
Put(m, id, row) ==
    [i \in DOMAIN m \cup {id} |-> IF i = id THEN row ELSE m[i]]

Remove(m, id) == [i \in DOMAIN m \ {id} |-> m[i]]

\* db.session.commit() with m the session's view: everything pending is
\* flushed and committed; a constraint violation raises IntegrityError and
\* the transaction is rolled back, which discards what was pending.
SessionCommit(m) ==
    IF UserConstraints(m)
    THEN store' = m /\ mem' = m
    ELSE store' = store /\ mem' = store

\* CRUDMixin.save: session.add(self), then commit if asked.
SaveSession(m, commit) ==
    IF commit THEN SessionCommit(m) ELSE mem' = m /\ store' = store

\* Whether the commit of m raises IntegrityError.
Raises(m, commit) == commit /\ ~UserConstraints(m)

\* ---------------------------------------------------------------- actions
\* Mutant of create: the new record is added to the session and not committed.
create_NoCommit(kwargs) ==
    /\ LET m == Put(mem, nextId, Construct(kwargs)) IN
        /\ SaveSession(m, FALSE)
        /\ last' = [op |-> "create", kwargs |-> kwargs,
                    raised |-> FALSE, ret |-> nextId]
    /\ nextId' = nextId + 1

\* CRUDMixin.create: instance = cls(**kwargs); return instance.save()
create(kwargs) ==
    /\ LET m == Put(mem, nextId, Construct(kwargs)) IN
        /\ SaveSession(m, TRUE)
        /\ last' = [op |-> "create", kwargs |-> kwargs,
                    raised |-> Raises(m, TRUE),
                    ret |-> IF Raises(m, TRUE) THEN NoId ELSE nextId]
    /\ nextId' = nextId + 1

\* CRUDMixin.update: setattr each, then `commit and self.save() or self`.
update(id, commit, kwargs) ==
    /\ id \in DOMAIN mem
    /\ LET m == [mem EXCEPT ![id] = SetAttrs(mem[id], kwargs)] IN
        /\ IF commit THEN SaveSession(m, TRUE) ELSE mem' = m /\ store' = store
        /\ last' = [op |-> "update", id |-> id, commit |-> commit,
                    kwargs |-> kwargs, raised |-> Raises(m, commit),
                    ret |-> IF Raises(m, commit) THEN NoId ELSE id]
    /\ UNCHANGED nextId

\* CRUDMixin.save on a record of the session.
save(id, commit) ==
    /\ id \in DOMAIN mem
    /\ SaveSession(mem, commit)
    /\ last' = [op |-> "save", id |-> id, commit |-> commit,
                raised |-> Raises(mem, commit),
                ret |-> IF Raises(mem, commit) THEN NoId ELSE id]
    /\ UNCHANGED nextId

\* CRUDMixin.delete: session.delete(self); return commit and commit().
delete(id, commit) ==
    /\ id \in DOMAIN mem
    /\ LET m == Remove(mem, id) IN
        /\ SaveSession(m, commit)
        /\ last' = [op |-> "delete", id |-> id, commit |-> commit,
                    raised |-> Raises(m, commit), ret |-> NoId]
    /\ UNCHANGED nextId

\* User.get_user_from_identity: the query flushes the session first
\* (autoflush); an exception is swallowed and None returned.  first() with
\* no ORDER BY returns any one of the matching rows.
get_user_from_identity(identity) ==
    IF UserConstraints(mem)
    THEN /\ LET found == {i \in DOMAIN mem : mem[i].email = identity} IN
              \E r \in (IF found = {} THEN {NoId} ELSE found) :
                 last' = [op |-> "get_user_from_identity",
                          identity |-> identity, raised |-> FALSE, ret |-> r]
         /\ UNCHANGED <<mem, store, nextId>>
    ELSE /\ last' = [op |-> "get_user_from_identity", identity |-> identity,
                     raised |-> TRUE, ret |-> NoId]
         /\ mem' = store
         /\ UNCHANGED <<store, nextId>>

\* -------------------------------------------------------------- passwords
Passwords == {"pw1", "pw2"}
Salts == {"s1", "s2"}

\* werkzeug's _hash_internal: the salted digest.  It is modelled as the pair
\* itself, that is as a digest without collisions.
HashInternal(salt, password) == <<salt, password>>

\* werkzeug's generate_password_hash: "method$salt$digest" under a salt drawn
\* at random.
generate_password_hash(password, salt) ==
    <<"pbkdf2:sha256", salt, HashInternal(salt, password)>>

\* werkzeug's check_password_hash: False for a string that is not
\* method$salt$digest, else the digest of the candidate under the stored salt
\* compared with the stored digest.
check_password_hash(pwhash, password) ==
    IF Len(pwhash) < 3
    THEN FALSE
    ELSE HashInternal(pwhash[2], password) = pwhash[3]

\* The record of the plaintexts given to set_password for a user: the latest
\* and the ones given before it.
Given(id, password) ==
    Put(plain, id,
        [latest |-> password,
         earlier |-> IF id \in DOMAIN plain
                     THEN plain[id].earlier \cup {plain[id].latest}
                     ELSE {}])

\* Mutant of set_password: the plaintext is stored as it is given.
set_password_Plain(id, password, salt) ==
    /\ id \in DOMAIN mem
    /\ LET m == [mem EXCEPT ![id].password = <<password>>] IN
        /\ SaveSession(m, TRUE)
        /\ plain' = IF Raises(m, TRUE) THEN plain ELSE Given(id, password)
        /\ last' = [op |-> "set_password", id |-> id,
                    raised |-> Raises(m, TRUE)]
    /\ UNCHANGED nextId

\* User.set_password: self.password = generate_password_hash(password);
\* self.save()
set_password(id, password, salt) ==
    /\ id \in DOMAIN mem
    /\ LET m == [mem EXCEPT ![id].password =
                                generate_password_hash(password, salt)] IN
        /\ SaveSession(m, TRUE)
        /\ plain' = IF Raises(m, TRUE) THEN plain ELSE Given(id, password)
        /\ last' = [op |-> "set_password", id |-> id,
                    raised |-> Raises(m, TRUE)]
    /\ UNCHANGED nextId

\* User.check_password: check_password_hash(self.password, password); a
\* password of None has no count(), which raises AttributeError.
check_password(id, password) ==
    /\ id \in DOMAIN mem
    /\ last' = [op |-> "check_password", id |-> id, password |-> password,
                raised |-> (mem[id].password = NoHash),
                ret |-> IF mem[id].password = NoHash THEN FALSE
                        ELSE check_password_hash(mem[id].password, password)]
    /\ UNCHANGED <<mem, store, nextId, plain>>

\* ----------------------------------------------------------------- tokens
\* current_app.config["SECRET_KEY"], and a key that is not the application's.
SECRET_KEY == "secret"
OTHER_KEY == "other"

TokenKeys == {"reset_password", "email_confirm"}

\* The signature of a payload under a key: it is the pair itself, that is a
\* signature nobody forges without the key.
Sign(secret, payload) == <<secret, payload.claim, payload.value, payload.exp>>

\* aggrep.utils.encode_token(key, value, secret, expires_in=...): the signed
\* payload {key: value, exp: now + expires_in}.
encode_token(key, value, secret, expires_in, now) ==
    LET payload == [claim |-> key, value |-> value, exp |-> now + expires_in]
    IN  [payload |-> payload, sig |-> Sign(secret, payload)]

\* aggrep.utils.decode_token(key, secret, token): the value stored under key,
\* or None for a token whose signature is not the secret's, that has expired
\* or that holds nothing under key.  At the very instant of expiry the answer
\* is either one (edge).
decode_token(key, secret, token, now, edge) ==
    IF token.sig # Sign(secret, token.payload) THEN NoId
    ELSE IF now > token.payload.exp \/ (now = token.payload.exp /\ edge) THEN NoId
    ELSE IF token.payload.claim # key THEN NoId
    ELSE token.payload.value

\* User.query.get(id): the user of that primary key, or None.
query_get(m, id) == IF id \in DOMAIN m THEN id ELSE NoId

\* Mutant of get_reset_password_token: the lifetime of the other token.
get_reset_password_token_Day(id, now) ==
    encode_token("reset_password", id, SECRET_KEY, 60 * 60 * 24, now)

\* User.get_reset_password_token
get_reset_password_token(id, now) ==
    encode_token("reset_password", id, SECRET_KEY, 60 * 15, now)

\* User.get_email_confirm_token
get_email_confirm_token(id, now) ==
    encode_token("email_confirm", id, SECRET_KEY, 60 * 60 * 24, now)

\* Mutant of verify_reset_password_token: the token is checked against a key
\* that is not the application's secret.
verify_reset_password_token_OtherKey(m, token, now, edge) ==
    LET id == decode_token("reset_password", OTHER_KEY, token, now, edge)
    IN  IF id = NoId THEN NoId ELSE query_get(m, id)

\* User.verify_reset_password_token
verify_reset_password_token(m, token, now, edge) ==
    LET id == decode_token("reset_password", SECRET_KEY, token, now, edge)
    IN  IF id = NoId THEN NoId ELSE query_get(m, id)

\* Mutant of verify_email_confirm_token: the key of the other purpose.
verify_email_confirm_token_ResetKey(m, token, now, edge) ==
    LET id == decode_token("reset_password", SECRET_KEY, token, now, edge)
    IN  IF id = NoId THEN NoId ELSE query_get(m, id)

\* User.verify_email_confirm_token
verify_email_confirm_token(m, token, now, edge) ==
    LET id == decode_token("email_confirm", SECRET_KEY, token, now, edge)
    IN  IF id = NoId THEN NoId ELSE query_get(m, id)

\* A user asks for a password reset token; the client keeps the token it
\* was sent last.
GetResetPasswordToken(id) ==
    /\ id \in DOMAIN mem
    /\ LET t == get_reset_password_token(id, clock) IN
        /\ held' =
              {[token |-> t, user |-> id, at |-> clock, kind |-> "reset_password"]}
        /\ last' = [op |-> "get_reset_password_token", id |-> id]
    /\ UNCHANGED <<userVars, clock>>

\* A user asks for an email confirmation token.
GetEmailConfirmToken(id) ==
    /\ id \in DOMAIN mem
    /\ LET t == get_email_confirm_token(id, clock) IN
        /\ held' =
              {[token |-> t, user |-> id, at |-> clock, kind |-> "email_confirm"]}
        /\ last' = [op |-> "get_email_confirm_token", id |-> id]
    /\ UNCHANGED <<userVars, clock>>

\* The tokens a client can present: the ones handed out, those with a field
\* of the payload changed under the old signature, those signed again under
\* another key, and tokens made from nothing under another key.
Tampered(t) ==
    {[t EXCEPT !.payload.value = v] : v \in 1..MaxTokenUsers}
      \cup {[t EXCEPT !.payload.claim = k] : k \in TokenKeys}
      \cup {[t EXCEPT !.payload.exp = t.payload.exp + 60 * 60 * 24]}
      \cup {[t EXCEPT !.sig = Sign(OTHER_KEY, t.payload)]}

Forged ==
    {encode_token(k, v, OTHER_KEY, 60 * 15, clock) :
        k \in TokenKeys, v \in 1..MaxTokenUsers}

TokenInputs ==
    {i.token : i \in held}
      \cup UNION {Tampered(i.token) : i \in held}
      \cup Forged

VerifyResetPasswordToken(token, edge) ==
    /\ last' = [op |-> "verify_reset_password_token", token |-> token,
                ret |-> verify_reset_password_token(mem, token, clock, edge)]
    /\ UNCHANGED <<userVars, tokenVars>>

VerifyEmailConfirmToken(token, edge) ==
    /\ last' = [op |-> "verify_email_confirm_token", token |-> token,
                ret |-> verify_email_confirm_token(mem, token, clock, edge)]
    /\ UNCHANGED <<userVars, tokenVars>>

\* Time passes.  The instants the model looks at lie on both sides of both
\* lifetimes, for a token handed out at 0 and for one handed out at 1.
Instants ==
    {0, 1} \cup {60 * 15 + d : d \in -1..2} \cup {60 * 60 * 24 + d : d \in -1..2}

Tick(t) ==
    /\ t > clock
    /\ clock' = t
    /\ last' = [op |-> "tick"]
    /\ UNCHANGED <<userVars, held>>

\* ------------------------------------------------- posts and their tables
\* The tables with a foreign key to posts.id.
Tables ==
    {"entity_queue", "entities", "similarity_queue", "similarities",
     "clicks", "bookmarks"}

\* The foreign key columns of a table, each ForeignKey("posts.id",
\* ondelete="CASCADE").  (user_id of clicks and bookmarks is left NULL.)
FkColumns(t) ==
    IF t = "similarities" THEN {"source_id", "related_id"} ELSE {"post_id"}

\* unique=True on post_id.
Queues == {"entity_queue", "similarity_queue"}

\* The foreign key columns behind a relationship() of Post: entities,
\* enqueued_entities, similar_posts (Similarity.source_id),
\* enqueued_similartities, and the backrefs clicks and bookmarks.  None sets
\* cascade or passive_deletes; Similarity.related_id has no relationship.
OrmColumns(t) ==
    IF t = "similarities" THEN {"source_id"} ELSE {"post_id"}

\* Mutant of RowConstraints: post_id is not unique in the queues.
RowConstraints_NoUnique(ps, rs) ==
    \A t \in Tables : \A i \in DOMAIN rs[t] : \A c \in FkColumns(t) :
        rs[t][i][c] # NoId => rs[t][i][c] \in ps

\* What the engine enforces on commit: each foreign key is NULL or the id of
\* a post, and a queue holds no two rows with the same non-NULL post_id.
RowConstraints(ps, rs) ==
    /\ \A t \in Tables : \A i \in DOMAIN rs[t] : \A c \in FkColumns(t) :
          rs[t][i][c] # NoId => rs[t][i][c] \in ps
    /\ \A t \in Queues : \A i, j \in DOMAIN rs[t] :
          (i # j /\ rs[t][i].post_id # NoId) => rs[t][i].post_id # rs[t][j].post_id

RowsInserted ==
    (rowNext["entity_queue"] - 1) + (rowNext["entities"] - 1)
      + (rowNext["similarity_queue"] - 1) + (rowNext["similarities"] - 1)
      + (rowNext["clicks"] - 1) + (rowNext["bookmarks"] - 1)

\* The rows a create can be given for a table: each foreign key None or an
\* id, of a post that exists or not.
RowKwargs(t) == [FkColumns(t) -> 0..MaxPosts]

\* Post.create(...)
create_post ==
    /\ posts' = posts \cup {postNext}
    /\ postNext' = postNext + 1
    /\ last' = [op |-> "create_post", raised |-> FALSE, ret |-> postNext]
    /\ UNCHANGED <<rows, rowNext>>

\* CRUDMixin.create on a model of Tables: the INSERT is refused with
\* IntegrityError when it breaks a constraint.
create_row(t, kwargs) ==
    LET id == rowNext[t]
        rs == [rows EXCEPT ![t] = Put(rows[t], id, kwargs)]
    IN  IF RowConstraints(posts, rs)
        THEN /\ rows' = rs
             /\ rowNext' = [rowNext EXCEPT ![t] = id + 1]
             /\ last' = [op |-> "create_row", table |-> t, kwargs |-> kwargs,
                         raised |-> FALSE, ret |-> id]
             /\ UNCHANGED <<posts, postNext>>
        ELSE /\ last' = [op |-> "create_row", table |-> t, kwargs |-> kwargs,
                         raised |-> TRUE, ret |-> NoId]
             /\ UNCHANGED <<posts, postNext, rows, rowNext>>

\* CRUDMixin.delete on a row of Tables.
delete_row(t, id) ==
    /\ id \in DOMAIN rows[t]
    /\ rows' = [rows EXCEPT ![t] = Remove(rows[t], id)]
    /\ last' = [op |-> "delete_row", table |-> t, id |-> id, raised |-> FALSE]
    /\ UNCHANGED <<posts, postNext, rowNext>>

\* The flush of session.delete(post): for each relationship of Post without
\* delete cascade the unit of work loads the children and sets their foreign
\* key to NULL.
Nullified(p) ==
    [t \in Tables |->
        [i \in DOMAIN rows[t] |->
            [c \in FkColumns(t) |->
                IF c \in OrmColumns(t) /\ rows[t][i][c] = p
                THEN NoId
                ELSE rows[t][i][c]]]]

\* The DELETE of the post row: ON DELETE CASCADE removes the rows that
\* still refer to it.
Cascaded(p, rs) ==
    [t \in Tables |->
        [i \in {k \in DOMAIN rs[t] : \A c \in FkColumns(t) : rs[t][k][c] # p}
            |-> rs[t][i]]]

\* CRUDMixin.delete on a Post: session.delete(self); commit.
delete_post(p) ==
    /\ p \in posts
    /\ posts' = posts \ {p}
    /\ rows' = Cascaded(p, Nullified(p))
    /\ last' = [op |-> "delete_post", id |-> p, raised |-> FALSE]
    /\ UNCHANGED <<postNext, rowNext>>

\* ------------------------------------------------------------- exclusions
\* Category.create(...), Source.create(...)
create_category ==
    /\ categories' = categories \cup {Cardinality(categories) + 1}
    /\ last' = [op |-> "create_category"]
    /\ UNCHANGED <<userVars, sources, excluded>>

create_source ==
    /\ sources' = sources \cup {Cardinality(sources) + 1}
    /\ last' = [op |-> "create_source"]
    /\ UNCHANGED <<userVars, categories, excluded>>

\* Mutant of update_excluded_categories: the categories are added to the
\* ones already excluded.
update_excluded_categories_Merge(id, cats) ==
    /\ id \in DOMAIN mem
    /\ SaveSession(mem, TRUE)
    /\ excluded' = IF Raises(mem, TRUE) THEN excluded
                   ELSE [excluded EXCEPT
                            ![id].categories = excluded[id].categories \cup cats]
    /\ last' = [op |-> "update_excluded_categories", id |-> id, arg |-> cats,
                before |-> excluded[id].categories, raised |-> Raises(mem, TRUE)]
    /\ UNCHANGED <<nextId, categories, sources>>

\* User.update_excluded_categories: self.excluded_categories = categories;
\* self.save()
update_excluded_categories(id, cats) ==
    /\ id \in DOMAIN mem
    /\ SaveSession(mem, TRUE)
    /\ excluded' = IF Raises(mem, TRUE) THEN excluded
                   ELSE [excluded EXCEPT ![id].categories = cats]
    /\ last' = [op |-> "update_excluded_categories", id |-> id, arg |-> cats,
                before |-> excluded[id].categories, raised |-> Raises(mem, TRUE)]
    /\ UNCHANGED <<nextId, categories, sources>>

\* User.update_excluded_sources: self.excluded_sources = sources; self.save()
update_excluded_sources(id, srcs) ==
    /\ id \in DOMAIN mem
    /\ SaveSession(mem, TRUE)
    /\ excluded' = IF Raises(mem, TRUE) THEN excluded
                   ELSE [excluded EXCEPT ![id].sources = srcs]
    /\ last' = [op |-> "update_excluded_sources", id |-> id, arg |-> srcs,
                before |-> excluded[id].sources, raised |-> Raises(mem, TRUE)]
    /\ UNCHANGED <<nextId, categories, sources>>

Init ==
    /\ mem = [i \in {} |-> None]
    /\ store = [i \in {} |-> None]
    /\ nextId = 1
    /\ last = [op |-> "init"]
    /\ plain = [i \in {} |-> None]
    /\ clock = 0
    /\ held = {}
    /\ posts = {}
    /\ postNext = 1
    /\ rows = [t \in Tables |-> [i \in {} |-> None]]
    /\ rowNext = [t \in Tables |-> 1]
    /\ categories = {}
    /\ sources = {}
    /\ excluded = [i \in {} |-> None]

\* ------------------------------------------------- specification: CRUD
NextCrud ==
    \/ \E kw \in CreateKwargs :
          nextId <= MaxCrudUsers /\ create(kw) /\ UNCHANGED <<authVars, tokenVars, postVars, exclVars>>
    \/ \E id \in DOMAIN mem, c \in BOOLEAN, kw \in UpdateKwargs :
          update(id, c, kw) /\ UNCHANGED <<authVars, tokenVars, postVars, exclVars>>
    \/ \E id \in DOMAIN mem, c \in BOOLEAN :
          save(id, c) /\ UNCHANGED <<authVars, tokenVars, postVars, exclVars>>
    \/ \E id \in DOMAIN mem, c \in BOOLEAN :
          delete(id, c) /\ UNCHANGED <<authVars, tokenVars, postVars, exclVars>>
    \/ \E e \in Emails \cup {None} :
          get_user_from_identity(e) /\ UNCHANGED <<authVars, tokenVars, postVars, exclVars>>

SpecCrud == Init /\ [][NextCrud]_vars

\* C4: a create that the schema accepts returns the id of a committed row
\* whose columns hold the values passed to create (read back from the store
\* and from the session).
C4_CreateReadBack ==
    (last.op = "create" /\ ~last.raised) =>
        /\ last.ret \in DOMAIN store
        /\ last.ret \in DOMAIN mem
        /\ \A c \in DOMAIN last.kwargs :
              /\ store[last.ret][c] = last.kwargs[c]
              /\ mem[last.ret][c] = last.kwargs[c]

C4_Witness ==
    /\ last.op = "create"
    /\ ~last.raised
    /\ "confirmed" \in DOMAIN last.kwargs
    /\ Cardinality(DOMAIN store) = 2

\* C6 as stated: a successful update sets exactly the named fields of the
\* record, leaves its other fields and every other record (in memory and in
\* the store) unchanged, returns the record, and with commit=False leaves
\* the store as it was.
C6_UpdateFrameAsStated ==
    [][ (last'.op = "update" /\ ~last'.raised) =>
          LET id == last'.id
              kw == last'.kwargs
          IN  /\ last'.ret = id
              /\ DOMAIN mem' = DOMAIN mem
              /\ \A c \in UserColumns :
                    mem'[id][c] = IF c \in DOMAIN kw THEN kw[c] ELSE mem[id][c]
              /\ \A j \in DOMAIN mem \ {id} : mem'[j] = mem[j]
              /\ DOMAIN store' = DOMAIN store
              /\ \A j \in DOMAIN store \ {id} : store'[j] = store[j]
              /\ ~last'.commit => store' = store ]_vars

\* C6 amended: a successful update sets exactly the named fields of the
\* record, leaves its other fields and every other in-memory record
\* unchanged and returns the record; with commit=False the store is left as
\* it was, with commit=True the commit writes the whole session to the store
\* (the uncommitted changes of other records included).
C6_UpdateFrame ==
    [][ (last'.op = "update" /\ ~last'.raised) =>
          LET id == last'.id
              kw == last'.kwargs
          IN  /\ last'.ret = id
              /\ DOMAIN mem' = DOMAIN mem
              /\ \A c \in UserColumns :
                    mem'[id][c] = IF c \in DOMAIN kw THEN kw[c] ELSE mem[id][c]
              /\ \A j \in DOMAIN mem \ {id} : mem'[j] = mem[j]
              /\ ~last'.commit => store' = store
              /\ last'.commit => store' = mem' ]_vars

C6_Witness ==
    /\ last.op = "update"
    /\ ~last.raised
    /\ ~last.commit
    /\ Cardinality(DOMAIN mem) = 2
    /\ last.id \in DOMAIN store
    /\ mem[last.id] # store[last.id]
    /\ mem[last.id].email = "b@x"

\* C10: no two stored users share an email, and get_user_from_identity(e)
\* returns the one user of the session whose email is e, or None when there
\* is none or when the lookup raised.
C10_UniqueEmail ==
    /\ \A i, j \in DOMAIN store :
          (i # j /\ store[i].email \in Emails) => store[i].email # store[j].email
    /\ (last.op = "get_user_from_identity" /\ last.identity \in Emails) =>
          LET holders == {i \in DOMAIN mem : mem[i].email = last.identity} IN
            IF last.raised \/ holders = {}
            THEN last.ret = NoId
            ELSE holders = {last.ret}

C10_Witness ==
    /\ last.op = "get_user_from_identity"
    /\ last.ret # NoId
    /\ Cardinality(DOMAIN store) = 2
    /\ \A i \in DOMAIN store : store[i].email \in Emails

\* -------------------------------------------- specification: passwords
NextAuth ==
    \/ nextId <= MaxAuthUsers /\ create(NoKwargs)
          /\ UNCHANGED <<authVars, tokenVars, postVars, exclVars>>
    \/ \E id \in DOMAIN mem :
          delete(id, TRUE) /\ plain' = Remove(plain, id) /\ UNCHANGED <<tokenVars, postVars, exclVars>>
    \/ \E id \in DOMAIN mem, p \in Passwords, s \in Salts :
          set_password(id, p, s) /\ UNCHANGED <<tokenVars, postVars, exclVars>>
    \/ \E id \in DOMAIN mem, q \in Passwords :
          check_password(id, q) /\ UNCHANGED <<tokenVars, postVars, exclVars>>

SpecAuth == Init /\ [][NextAuth]_vars

\* C1: once set_password has been called for a user, check_password(q) is
\* true exactly when q is the plaintext of the most recent call.
C1_CheckPassword ==
    (last.op = "check_password" /\ last.id \in DOMAIN plain) =>
        /\ ~last.raised
        /\ last.ret <=> (last.password = plain[last.id].latest)

\* The candidate is the earlier of two different passwords, and is refused.
C1_Witness ==
    /\ last.op = "check_password"
    /\ last.id \in DOMAIN plain
    /\ last.password \in plain[last.id].earlier
    /\ last.password # plain[last.id].latest
    /\ ~last.ret

\* ----------------------------------------------- specification: tokens
NextToken ==
    \/ nextId <= MaxTokenUsers /\ create(NoKwargs)
          /\ UNCHANGED <<authVars, tokenVars, postVars, exclVars>>
    \/ \E id \in DOMAIN mem :
          delete(id, TRUE) /\ UNCHANGED <<authVars, tokenVars, postVars, exclVars>>
    \/ \E id \in DOMAIN mem :
          GetResetPasswordToken(id) /\ UNCHANGED <<authVars, postVars, exclVars>>
    \/ \E id \in DOMAIN mem :
          GetEmailConfirmToken(id) /\ UNCHANGED <<authVars, postVars, exclVars>>
    \/ \E t \in TokenInputs, e \in BOOLEAN :
          VerifyResetPasswordToken(t, e) /\ UNCHANGED <<authVars, postVars, exclVars>>
    \/ \E t \in TokenInputs, e \in BOOLEAN :
          VerifyEmailConfirmToken(t, e) /\ UNCHANGED <<authVars, postVars, exclVars>>
    \/ \E t \in Instants : Tick(t) /\ UNCHANGED <<authVars, postVars, exclVars>>

SpecToken == Init /\ [][NextToken]_vars

IssuedAs(kind, token) == {i \in held : i.kind = kind /\ i.token = token}

\* C2: a reset token of a user who is still stored verifies to that user
\* before 15 minutes have passed since it was handed out and to None after;
\* an email confirmation token likewise with 24 hours.
C2_TokenLifetime ==
    /\ last.op = "verify_reset_password_token" =>
         \A i \in IssuedAs("reset_password", last.token) :
            i.user \in DOMAIN store =>
              /\ clock < i.at + 15 * 60 => last.ret = i.user
              /\ clock > i.at + 15 * 60 => last.ret = NoId
    /\ last.op = "verify_email_confirm_token" =>
         \A i \in IssuedAs("email_confirm", last.token) :
            i.user \in DOMAIN store =>
              /\ clock < i.at + 24 * 60 * 60 => last.ret = i.user
              /\ clock > i.at + 24 * 60 * 60 => last.ret = NoId

\* An email confirmation token is refused once 24 hours have passed.
C2_Witness ==
    /\ last.op = "verify_email_confirm_token"
    /\ last.ret = NoId
    /\ \E i \in IssuedAs("email_confirm", last.token) :
          i.user \in DOMAIN store /\ clock > i.at + 24 * 60 * 60

VerifyOps == {"verify_reset_password_token", "verify_email_confirm_token"}

Lifetime(kind) == IF kind = "reset_password" THEN 15 * 60 ELSE 24 * 60 * 60

\* C3: a verification leaves the users as they were, and returns None for a
\* token that was not handed out under the secret key (forged or tampered
\* with) or whose lifetime has passed.
C3_InvalidTokenIsNone ==
    [][ last'.op \in VerifyOps =>
          /\ store' = store
          /\ mem' = mem
          /\ (\/ last'.token \notin {i.token : i \in held}
              \/ \E i \in held :
                    i.token = last'.token /\ clock > i.at + Lifetime(i.kind))
                => last'.ret = NoId ]_vars

\* A token naming a stored user, not handed out by the program, is refused.
C3_Witness ==
    /\ last.op \in VerifyOps
    /\ last.token \notin {i.token : i \in held}
    /\ last.token.payload.value \in DOMAIN store
    /\ last.token.payload.exp > clock
    /\ last.ret = NoId

NextPosts ==
    \/ postNext <= MaxPosts /\ create_post
          /\ UNCHANGED <<userVars, authVars, tokenVars, exclVars>>
    \/ \E t \in Tables : \E kw \in RowKwargs(t) :
          RowsInserted < MaxChildRows /\ create_row(t, kw)
          /\ UNCHANGED <<userVars, authVars, tokenVars, exclVars>>
    \/ \E t \in Tables : \E id \in DOMAIN rows[t] :
          delete_row(t, id)
          /\ UNCHANGED <<userVars, authVars, tokenVars, exclVars>>
    \/ \E p \in posts :
          delete_post(p)
          /\ UNCHANGED <<userVars, authVars, tokenVars, exclVars>>

SpecPosts == Init /\ [][NextPosts]_vars

\* Every foreign key that is not NULL is the id of a post.
ReferentialIntegrity ==
    \A t \in Tables : \A i \in DOMAIN rows[t] : \A c \in FkColumns(t) :
        rows[t][i][c] # NoId => rows[t][i][c] \in posts

\* C5: every foreign key that is not NULL refers to a row, and the delete of
\* a post deletes every row that referred to it.
C5_CascadeDelete ==
    [][ /\ ReferentialIntegrity'
        /\ last'.op = "delete_post" =>
             \A t \in Tables : \A i \in DOMAIN rows[t] :
                (\E c \in FkColumns(t) : rows[t][i][c] = last'.id)
                    => i \notin DOMAIN rows'[t] ]_vars

\* C8: a queue holds at most one row per post, and a create for a post that
\* has a row in the queue raises and leaves the queue as it was.
C8_OneEntryPerPost ==
    [][ /\ \A t \in Queues : \A i, j \in DOMAIN rows'[t] :
              (i # j /\ rows'[t][i].post_id # NoId)
                  => rows'[t][i].post_id # rows'[t][j].post_id
        /\ (/\ last'.op = "create_row"
            /\ last'.table \in Queues
            /\ \E i \in DOMAIN rows[last'.table] :
                  /\ rows[last'.table][i].post_id # NoId
                  /\ rows[last'.table][i].post_id = last'.kwargs.post_id)
              => last'.raised /\ rows' = rows ]_vars

\* A second entry for a post that exists and is in the queue was refused.
C8_Witness ==
    /\ last.op = "create_row"
    /\ last.table = "entity_queue"
    /\ last.raised
    /\ last.kwargs.post_id \in posts
    /\ \E i \in DOMAIN rows["entity_queue"] :
          rows["entity_queue"][i].post_id = last.kwargs.post_id

\* ------------------------------------------- specification: exclusions
NextExcl ==
    \/ /\ nextId <= MaxExclUsers
       /\ create(NoKwargs)
       /\ excluded' = IF Raises(Put(mem, nextId, Construct(NoKwargs)), TRUE)
                      THEN excluded
                      ELSE Put(excluded, nextId, [categories |-> {}, sources |-> {}])
       /\ UNCHANGED <<authVars, tokenVars, postVars, categories, sources>>
    \/ \E id \in DOMAIN mem :
          /\ delete(id, TRUE)
          /\ excluded' = Remove(excluded, id)
          /\ UNCHANGED <<authVars, tokenVars, postVars, categories, sources>>
    \/ Cardinality(categories) < MaxCategories /\ create_category
          /\ UNCHANGED <<authVars, tokenVars, postVars>>
    \/ Cardinality(sources) < MaxSources /\ create_source
          /\ UNCHANGED <<authVars, tokenVars, postVars>>
    \/ \E id \in DOMAIN mem : \E cats \in SUBSET categories :
          update_excluded_categories(id, cats)
          /\ UNCHANGED <<authVars, tokenVars, postVars>>
    \/ \E id \in DOMAIN mem : \E srcs \in SUBSET sources :
          update_excluded_sources(id, srcs)
          /\ UNCHANGED <<authVars, tokenVars, postVars>>

SpecExcl == Init /\ [][NextExcl]_vars

\* C7: update_excluded_categories(c) leaves the user with exactly c as the
\* excluded categories, and with the excluded sources, and every other user
\* with the exclusions, that they had; update_excluded_sources likewise; and
\* the same call made again changes nothing.
C7_ExclusionsReplaced ==
    [][ /\ (last'.op = "update_excluded_categories" /\ ~last'.raised) =>
              /\ DOMAIN excluded' = DOMAIN excluded
              /\ excluded'[last'.id].categories = last'.arg
              /\ excluded'[last'.id].sources = excluded[last'.id].sources
              /\ \A j \in DOMAIN excluded \ {last'.id} : excluded'[j] = excluded[j]
        /\ (last'.op = "update_excluded_sources" /\ ~last'.raised) =>
              /\ DOMAIN excluded' = DOMAIN excluded
              /\ excluded'[last'.id].sources = last'.arg
              /\ excluded'[last'.id].categories = excluded[last'.id].categories
              /\ \A j \in DOMAIN excluded \ {last'.id} : excluded'[j] = excluded[j]
        /\ (/\ last'.op \in {"update_excluded_categories", "update_excluded_sources"}
            /\ last.op = last'.op
            /\ last.id = last'.id
            /\ last.arg = last'.arg
            /\ ~last.raised /\ ~last'.raised)
              => UNCHANGED <<excluded, mem, store>> ]_vars

\* An exclusion that is not in the argument was dropped, while the user's
\* sources and another user's exclusions are not empty.
C7_Witness ==
    /\ last.op = "update_excluded_categories"
    /\ ~last.raised
    /\ last.before \ last.arg # {}
    /\ excluded[last.id].sources # {}
    /\ \E j \in DOMAIN excluded \ {last.id} : excluded[j].categories # {}

====
